---- MODULE Spec2Model ----
(***************************************************************************)
(* The catalog reconciliation of scripts/sync_mcp_direct.py: the PL/pgSQL   *)
(* functions generate_server_id, determine_category, extract_tags and       *)
(* sync_mcp_servers_from_pulsemcp, the main() of that script, and the HTTP  *)
(* entry points of scripts/sync_mcp_servers.py and scripts/sync_with_key.py *)
(* with their main().  Spec runs the scripts; CallSpec calls the SQL        *)
(* functions one at a time on drawn arguments.                              *)
(*                                                                          *)
(* Text values are sequences of one-character strings, so that lower(),     *)
(* regexp_replace() and LIKE are computed character by character.  SQL NULL *)
(* is the value NULL below.                                                 *)
(***************************************************************************)
EXTENDS Integers, Sequences, FiniteSets, TLC

\* ---------------------------------------------------------------- state

VARIABLES
    variable_conflict,  \* plpgsql.variable_conflict of the database
    source,             \* the pages the directory endpoint serves
    servers,            \* table servers: id -> row
    install_rows,       \* table server_install_instructions, in insertion order
    now,                \* now(): the start time of the run's transaction
    pc,                 \* "idle", "loop" (WHILE test), "entries" (FOR loop), "done",
                        \* "http_done" (sync_mcp_servers() of the HTTP script is over),
                        \* "exited" (the script's process has left), "call"
    next_url, response, pos,
    server_count, added_count, updated_count, skipped_count, error_count,
    error_messages,
    result,             \* what the run entry point returned
    fetched,            \* the page requests of this run, in order, each with the
                        \* delays that followed it
    log,                \* what became of each entry of this run, in order
    harness,            \* the script's process: what it requested, printed, exited with
    args,               \* the arguments of a direct call of one of the SQL functions
    out                 \* what that call returned

NULL == <<"NULL">>

\* ------------------------------------------------------------------ text

LowerLetters ==
    {"a","b","c","d","e","f","g","h","i","j","k","l","m",
     "n","o","p","q","r","s","t","u","v","w","x","y","z"}

Digits == {"0","1","2","3","4","5","6","7","8","9"}

UpperToLower ==
    [c \in {"A","B","C","D","E","F","G","H","I","J","K","L","M",
            "N","O","P","Q","R","S","T","U","V","W","X","Y","Z"} |->
        CASE c = "A" -> "a" [] c = "B" -> "b" [] c = "C" -> "c" [] c = "D" -> "d"
          [] c = "E" -> "e" [] c = "F" -> "f" [] c = "G" -> "g" [] c = "H" -> "h"
          [] c = "I" -> "i" [] c = "J" -> "j" [] c = "K" -> "k" [] c = "L" -> "l"
          [] c = "M" -> "m" [] c = "N" -> "n" [] c = "O" -> "o" [] c = "P" -> "p"
          [] c = "Q" -> "q" [] c = "R" -> "r" [] c = "S" -> "s" [] c = "T" -> "t"
          [] c = "U" -> "u" [] c = "V" -> "v" [] c = "W" -> "w" [] c = "X" -> "x"
          [] c = "Y" -> "y" [] c = "Z" -> "z"]

\* [a-z0-9]
IsLowerAlnum(c) == c \in LowerLetters \cup Digits

\* \w : letters of either case, digits and the underscore
IsWordChar(c) == c \in LowerLetters \cup Digits \cup DOMAIN UpperToLower \cup {"_"}

\* [\w.-]
IsRepoChar(c) == IsWordChar(c) \/ c \in {".", "-"}

LowerChar(c) == IF c \in DOMAIN UpperToLower THEN UpperToLower[c] ELSE c

\* lower(text); lower(NULL) is NULL
lower(s) == IF s = NULL THEN NULL ELSE [i \in 1..Len(s) |-> LowerChar(s[i])]

\* s LIKE '%sub%', taken as false when s is NULL (an IF on NULL is not taken)
Like(s, sub) ==
    /\ s # NULL
    /\ \E i \in 1..(Len(s) - Len(sub) + 1) : SubSeq(s, i, i + Len(sub) - 1) = sub

\* regexp_replace(s, '[^a-z0-9]+', '-', 'g'): every maximal run of characters
\* outside [a-z0-9] becomes one '-'
RECURSIVE CollapseFrom(_, _)
CollapseFrom(s, i) ==
    IF i > Len(s) THEN <<>>
    ELSE IF IsLowerAlnum(s[i]) THEN <<s[i]>> \o CollapseFrom(s, i + 1)
    ELSE IF i > 1 /\ ~IsLowerAlnum(s[i - 1]) THEN CollapseFrom(s, i + 1)
    ELSE <<"-">> \o CollapseFrom(s, i + 1)

CollapseNonAlnum(s) == IF s = NULL THEN NULL ELSE CollapseFrom(s, 1)

\* regexp_replace(s, '[^a-z0-9-/]', '-', 'g'): each character outside the
\* class becomes '-'
ReplaceOutsideIdClass(s) ==
    [i \in 1..Len(s) |-> IF IsLowerAlnum(s[i]) \/ s[i] \in {"-", "/"} THEN s[i] ELSE "-"]

\* the length of the maximal run of [\w.-] characters of s starting at i
RECURSIVE RepoRun(_, _)
RepoRun(s, i) ==
    IF i > Len(s) \/ ~IsRepoChar(s[i]) THEN 0 ELSE 1 + RepoRun(s, i + 1)

GithubHost == <<"g","i","t","h","u","b",".","c","o","m">>

\* whether 'github\.com[/:]([\w.-]+)/([\w.-]+)' matches s with the host at i
MatchesAt(s, i) ==
    LET o == i + Len(GithubHost) + 1
        n == RepoRun(s, o)
    IN  /\ i + Len(GithubHost) <= Len(s)
        /\ SubSeq(s, i, i + Len(GithubHost) - 1) = GithubHost
        /\ s[i + Len(GithubHost)] \in {"/", ":"}
        /\ n > 0
        /\ o + n <= Len(s)
        /\ s[o + n] = "/"
        /\ RepoRun(s, o + n + 1) > 0

\* regexp_matches(github_url, ...): the two groups of the first match, or
\* <<>> when there is none
regexp_matches(s) ==
    LET at == {i \in 1..Len(s) : MatchesAt(s, i)}
    IN  IF at = {} THEN <<>>
        ELSE LET i == CHOOSE j \in at : \A k \in at : j <= k
                 o == i + Len(GithubHost) + 1
                 n == RepoRun(s, o)
                 m == RepoRun(s, o + n + 1)
             IN  <<SubSeq(s, o, o + n - 1), SubSeq(s, o + n + 1, o + n + m)>>

DotGit == <<".","g","i","t">>

\* regexp_replace(repo, '\.git$', '')
StripDotGit(r) ==
    IF Len(r) >= Len(DotGit) /\ SubSeq(r, Len(r) - Len(DotGit) + 1, Len(r)) = DotGit
    THEN SubSeq(r, 1, Len(r) - Len(DotGit))
    ELSE r

\* a derivation that looked into the store to keep identifiers apart
generate_server_id_unique(name, github_url) ==
    LET base == lower(CollapseNonAlnum(name))
    IN  IF base \in DOMAIN servers THEN base \o <<"-","2">> ELSE base

generate_server_id(name, github_url) ==
    LET github_parts == IF github_url = NULL THEN <<>> ELSE regexp_matches(github_url)
    IN  IF Len(github_parts) = 2
        THEN ReplaceOutsideIdClass(
                 lower(github_parts[1] \o <<"/">> \o StripDotGit(github_parts[2])))
        ELSE lower(CollapseNonAlnum(name))


\* ------------------------------------------------------- classification

Str_auth == <<"a","u","t","h">>
Str_login == <<"l","o","g","i","n">>
Str_database == <<"d","a","t","a","b","a","s","e">>
Str_storage == <<"s","t","o","r","a","g","e">>
Str_db == <<"d","b">>
Str_ai == <<"a","i">>
Str_llm == <<"l","l","m">>
Str_language_model == <<"l","a","n","g","u","a","g","e"," ","m","o","d","e","l">>
Str_file == <<"f","i","l","e">>
Str_document == <<"d","o","c","u","m","e","n","t">>
Str_web == <<"w","e","b">>
Str_http == <<"h","t","t","p">>

\* the rules tried from the last to the first
determine_category_reversed(name, description) ==
    LET lc_name == lower(name)
        lc_desc == lower(IF description = NULL THEN <<>> ELSE description)
    IN  IF Like(lc_desc, Str_web) \/ Like(lc_desc, Str_http)
        THEN "web"
        ELSE IF Like(lc_desc, Str_file) \/ Like(lc_desc, Str_document)
        THEN "files"
        ELSE IF Like(lc_desc, Str_ai) \/ Like(lc_desc, Str_llm)
                \/ Like(lc_desc, Str_language_model)
        THEN "ai"
        ELSE IF Like(lc_desc, Str_database) \/ Like(lc_desc, Str_storage)
                \/ Like(lc_name, Str_db)
        THEN "database"
        ELSE IF Like(lc_name, Str_auth) \/ Like(lc_desc, Str_auth) \/ Like(lc_desc, Str_login)
        THEN "auth"
        ELSE "other"

determine_category(name, description) ==
    LET lc_name == lower(name)
        lc_desc == lower(IF description = NULL THEN <<>> ELSE description)
    IN  IF Like(lc_name, Str_auth) \/ Like(lc_desc, Str_auth) \/ Like(lc_desc, Str_login)
        THEN "auth"
        ELSE IF Like(lc_desc, Str_database) \/ Like(lc_desc, Str_storage)
                \/ Like(lc_name, Str_db)
        THEN "database"
        ELSE IF Like(lc_desc, Str_ai) \/ Like(lc_desc, Str_llm)
                \/ Like(lc_desc, Str_language_model)
        THEN "ai"
        ELSE IF Like(lc_desc, Str_file) \/ Like(lc_desc, Str_document)
        THEN "files"
        ELSE IF Like(lc_desc, Str_web) \/ Like(lc_desc, Str_http)
        THEN "web"
        ELSE "other"

common_words ==
    { <<"t","h","e">>, <<"a","n","d">>, <<"f","o","r">>, <<"w","i","t","h">>,
      <<"t","h","a","t">>, <<"t","h","i","s">>, <<"h","a","s">>, <<"a","r","e">>,
      <<"f","r","o","m">> }

\* the non-empty elements of regexp_split_to_array(s, '[^a-z0-9]+'): the
\* maximal runs of [a-z0-9] characters of s
RECURSIVE AlnumRun(_, _)
AlnumRun(s, i) ==
    IF i > Len(s) \/ ~IsLowerAlnum(s[i]) THEN 0 ELSE 1 + AlnumRun(s, i + 1)

Tokens(s) ==
    IF s = NULL THEN {}
    ELSE { SubSeq(s, i, i + AlnumRun(s, i) - 1) :
             i \in { j \in 1..Len(s) :
                       IsLowerAlnum(s[j]) /\ (j = 1 \/ ~IsLowerAlnum(s[j - 1])) } }

MaxTags == 10

\* a filter that let every word through
TagWords_unfiltered(name, description) ==
    Tokens(lower(name)) \cup Tokens(lower(description))

\* the words extract_tags keeps: longer than 2 characters, not a common word
TagWords(name, description) ==
    { w \in Tokens(lower(name)) \cup Tokens(lower(description)) :
        Len(w) > 2 /\ w \notin common_words }

\* the tag arrays extract_tags can return, as sets of words (the store model
\* keeps no order of a tag array); the empty set stands for NULL, which is
\* what array_agg gives when no word is kept
extract_tags(name, description) ==
    LET words == TagWords(name, description)
    IN  IF Cardinality(words) <= MaxTags THEN {words}
        ELSE { t \in SUBSET words : Cardinality(t) = MaxTags }

\* regexp_split_to_array(s, '[^a-z0-9]+') from position i on, without the
\* empty strings a separator at either end gives (no length test keeps them)
RECURSIVE regexp_split_to_array(_, _)
regexp_split_to_array(s, i) ==
    IF i > Len(s) THEN <<>>
    ELSE IF IsLowerAlnum(s[i])
    THEN << SubSeq(s, i, i + AlnumRun(s, i) - 1) >>
             \o regexp_split_to_array(s, i + AlnumRun(s, i))
    ELSE regexp_split_to_array(s, i + 1)

\* all_words := array_cat(name_parts, desc_parts)
all_words(name, description) ==
    (IF name = NULL THEN <<>> ELSE regexp_split_to_array(lower(name), 1))
      \o (IF description = NULL THEN <<>>
          ELSE regexp_split_to_array(lower(description), 1))

\* an array without the elements that an earlier position holds already
RECURSIVE FirstOccurrences(_, _)
FirstOccurrences(q, i) ==
    IF i > Len(q) THEN <<>>
    ELSE IF \E j \in 1..(i - 1) : q[j] = q[i] THEN FirstOccurrences(q, i + 1)
    ELSE << q[i] >> \o FirstOccurrences(q, i + 1)

\* up to how many rows every order of them is drawn
MaxPermuted == 3

Rotations(q) ==
    { SubSeq(q, k, Len(q)) \o SubSeq(q, 1, k - 1) : k \in 1..Len(q) }

Orderings(S) ==
    { q \in [1..Cardinality(S) -> S] :
        \A i, j \in 1..Cardinality(S) : i # j => q[i] # q[j] }

\* The orders in which SELECT DISTINCT, which has no ORDER BY, can give the
\* rows kept of the array q: any order.  Of more than MaxPermuted rows the
\* orders drawn are the rotations of one, so that any row can come first and
\* any row can come last.
DistinctRows(q, kept) ==
    LET rows == SelectSeq(FirstOccurrences(q, 1), LAMBDA w : w \in kept)
    IN  IF Len(rows) <= MaxPermuted THEN Orderings(kept) ELSE Rotations(rows)

\* the arrays extract_tags can return: array_agg of the rows, NULL when there
\* is none, cut to tags[1:10]
TagArrays(name, description) ==
    LET kept == TagWords(name, description)
    IN  IF kept = {} THEN {NULL}
        ELSE { IF Len(q) > MaxTags THEN SubSeq(q, 1, MaxTags) ELSE q :
                 q \in DistinctRows(all_words(name, description), kept) }

\* ------------------------------------------------------ source entries

\* One element of response->'servers'.  install_instructions is <<>> when the
\* entry has none (absent and empty take the same branch of the code).
Entry(name, desc, url, registry, package, downloads, stars, external, instr) ==
    [ name |-> name, short_description |-> desc,
      EXPERIMENTAL_ai_generated_description |-> NULL, source_code_url |-> url,
      package_registry |-> registry, package_name |-> package,
      package_download_count |-> downloads, github_stars |-> stars,
      external_url |-> external, install_instructions |-> instr ]

\* the entry of the end-to-end scenario
EDemo == Entry(<<"D","e","m","o"," ","A","u","t","h">>, <<"a","u","t","h"," ","f","o","r"," ","a","p","p","s">>, <<"h","t","t","p","s",":","/","/","g","i","t","h","u","b",".","c","o","m","/","a","c","m","e","/","d","e","m","o","-","a","u","t","h">>, <<"n","p","m">>, <<"d","e","m","o","-","a","u","t","h">>,
               NULL, NULL, NULL, <<>>)

\* an entry with every field supplied, no repository match, registry pip
EKit == Entry(<<"d","b"," ","k","i","t">>, <<"s","t","o","r","a","g","e"," ","k","i","t">>, <<"g","l",".","i","o","/","k","i","t">>, <<"p","i","p">>, <<"k","i","t">>, <<"7">>, <<"3">>, <<"k","i","t",".","i","o">>, <<>>)

\* an entry with every field supplied that brings its own instructions
EWeb == Entry(<<"w","e","b"," ","x">>, <<"h","t","t","p"," ","t","o","o","l">>, <<"g","l",".","i","o","/","w","e","b">>, <<"n","p","m">>, <<"w","e","b","x">>, <<"9">>, <<"1">>, <<"w","e","b",".","i","o">>,
              << [platform |-> "macOS", icon_url |-> "mac.svg",
                  install_command |-> <<"b","r","e","w"," ","i","n","s","t","a","l","l"," ","w","e","b","x">>],
                 [platform |-> "Docker", icon_url |-> "docker.svg",
                  install_command |-> <<"d","o","c","k","e","r"," ","r","u","n"," ","w","e","b","x">>] >>)

\* a second entry whose name derives the identifier of EKit
EKit2 == Entry(<<"d","b","_","k","i","t">>, <<"f","i","l","e"," ","k","i","t">>, <<"g","l",".","i","o","/","k","i","t","2">>, <<"c","a","r","g","o">>, <<"k","i","t","2">>, <<"2">>, <<"5">>, <<"k","i","t","2",".","i","o">>, <<>>)

\* an entry with every field supplied whose repository URL matches
EGit == Entry(<<"F","i","l","e","s">>, <<"f","i","l","e"," ","t","o","o","l">>, <<"g","i","t","@","g","i","t","h","u","b",".","c","o","m",":","A","b","/","c",".","d",".","g","i","t">>, <<"g","o">>, <<"c",".","d">>, <<"4">>, <<"8">>, <<"c","d",".","i","o">>, <<>>)

\* The pages the source serves, in chain order: page i names page i + 1 as
\* next and the last page names none.
Sources ==
    { << <<EDemo>> >>,
      << <<EKit>>, <<EWeb>> >>,
      << <<EKit, EDemo, EWeb>> >>,
      << <<EWeb>>, <<>>, <<EKit, EKit2>> >>,
      << <<EGit, EKit>> >> }

NoUrl == 0

\* 'https://api.pulsemcp.com/v0beta/servers?count_per_page=100', the first page
api_url == 1

\* the body served for page url of source src
Page(src, url) ==
    [ servers |-> src[url], next |-> IF url < Len(src) THEN url + 1 ELSE NoUrl ]

\* ---------------------------------------------------------------- store

InstructionRow(id, platform, icon, command, sort) ==
    [ server_id |-> id, platform |-> platform, icon_url |-> icon,
      install_command |-> command, sort_order |-> sort ]

EmptyStore == [ servers |-> <<>>, rows |-> <<>> ]

OldKit ==
    [ id |-> <<"d","b","-","k","i","t">>, name |-> <<"o","l","d"," ","k","i","t">>, description |-> <<"o","l","d">>, category |-> "other",
      tags |-> {<<"o","l","d">>}, package_registry |-> <<"n","p","m">>, package_name |-> <<"o","l","d">>,
      package_download_count |-> <<"1">>, github_url |-> <<"g","l",".","i","o","/","o","l","d">>, github_stars |-> <<"1">>,
      external_url |-> <<"o","l","d",".","i","o">>, created_at |-> 0, updated_at |-> 0,
      api_documentation |-> [ description |-> <<"o","l","d">>, endpoints |-> <<>>,
                              examples |-> <<>>, generated_at |-> 0 ] ]

OtherRecord == [ OldKit EXCEPT !.id = <<"z","z">>, !.name = <<"z","z">> ]

\* a store left by earlier runs: two records, and instruction rows whose sort
\* orders have a gap
SeededStore ==
    [ servers |-> (<<"d","b","-","k","i","t">> :> OldKit) @@ (<<"z","z">> :> OtherRecord),
      rows |-> << InstructionRow(<<"d","b","-","k","i","t">>, "Old", "old.svg", <<"o","l","d"," ","c","m","d">>, 0),
                  InstructionRow(<<"d","b","-","k","i","t">>, "Older", "old.svg", <<"o","l","d"," ","c","m","d">>, 5),
                  InstructionRow(<<"z","z">>, "Linux", "zz.svg", <<"z","z"," ","c","m","d">>, 0) >> ]

Stores == { EmptyStore, SeededStore }


\* --------------------------------------------------------------- bounds

\* how many runs a behaviour holds
MaxRuns == 2

\* how many entries of one run the environment disturbs
MaxFaults == 1

vars ==
    << variable_conflict, source, servers, install_rows, now, pc, next_url, response,
       pos, server_count, added_count, updated_count, skipped_count, error_count,
       error_messages, result, fetched, log, harness, args, out >>

NoResult == [ none |-> TRUE ]

NoResponse == [ servers |-> <<>>, next |-> NoUrl ]

\* no script process has run main() yet
NoHarness == [ script |-> "none" ]

\* main() of a script has begun and has not left yet: the credential it was
\* given, and whether it has sent a request
Running(script, key, requested) ==
    [ script |-> script, key |-> key, requested |-> requested,
      exited |-> FALSE, code |-> 0, shown |-> {} ]

\* the process has left with sys.exit(code), or by reaching the end of main()
Exited(h, code, shown) == [ h EXCEPT !.exited = TRUE, !.code = code, !.shown = shown ]

\* no SQL function has been called on its own
NoArgs == [ none |-> TRUE ]

NoOut == [ fn |-> "none", nth |-> 0 ]

Init ==
    /\ variable_conflict \in {"error", "use_variable", "use_column"}
    /\ source \in Sources
    /\ \E st \in Stores : servers = st.servers /\ install_rows = st.rows
    /\ now = 0
    /\ pc = "idle"
    /\ next_url = NoUrl
    /\ response = NoResponse
    /\ pos = 1
    /\ server_count = 0 /\ added_count = 0 /\ updated_count = 0
    /\ skipped_count = 0 /\ error_count = 0
    /\ error_messages = <<>>
    /\ result = NoResult
    /\ fetched = <<>>
    /\ log = <<>>
    /\ harness = NoHarness
    /\ args = NoArgs
    /\ out = NoOut

\* ------------------------------------------------------- record write

Coalesce(a, b) == IF a # NULL THEN a ELSE b

api_documentation(server) ==
    [ description |-> Coalesce(server.EXPERIMENTAL_ai_generated_description,
                               Coalesce(server.short_description, <<>>)),
      endpoints |-> <<>>, examples |-> <<>>, generated_at |-> now ]

server_data(server, server_id, tags) ==
    [ id |-> server_id,
      name |-> server.name,
      description |-> server.short_description,
      category |-> determine_category(server.name, server.short_description),
      tags |-> tags,
      package_registry |-> server.package_registry,
      package_name |-> server.package_name,
      package_download_count |-> server.package_download_count,
      github_url |-> server.source_code_url,
      github_stars |-> server.github_stars,
      external_url |-> server.external_url,
      updated_at |-> now,
      api_documentation |-> api_documentation(server) ]

\* INSERT INTO servers ... jsonb_set(server_data, '{created_at}', now())
InsertedRow(data) == [ created_at |-> now ] @@ data

\* an UPDATE that also overwrote created_at, as the INSERT's jsonb_set does
UpdatedRow_resets(old, data) == [ created_at |-> now ] @@ data

\* UPDATE servers SET ... WHERE id = server_id: every column but id and created_at
UpdatedRow(old, data) == [ created_at |-> old.created_at ] @@ data

\* row IS NOT NULL on a composite value: true only when no column is NULL
RowIsNotNull(row) ==
    /\ row.id # NULL /\ row.name # NULL /\ row.description # NULL
    /\ row.tags # {}
    /\ row.package_registry # NULL /\ row.package_name # NULL
    /\ row.package_download_count # NULL /\ row.github_url # NULL
    /\ row.github_stars # NULL /\ row.external_url # NULL

\* -------------------------------------------------- instruction rows

\* WHERE server_id = server_id, with a PL/pgSQL variable and a column of that
\* name: the variable compared with itself, or the column with itself
ConflictMatches(row, server_id) ==
    IF variable_conflict = "use_variable" THEN server_id # NULL
    ELSE row.server_id # NULL

RECURSIVE Without(_, _)
Without(rows, server_id) ==
    IF rows = <<>> THEN <<>>
    ELSE IF ConflictMatches(Head(rows), server_id) THEN Without(Tail(rows), server_id)
    ELSE <<Head(rows)>> \o Without(Tail(rows), server_id)

\* a reconciliation that kept the stored rows and only appended
DeleteInstructions_none(rows, server_id) == rows

\* DELETE FROM server_install_instructions WHERE server_id = server_id
DeleteInstructions(rows, server_id) == Without(rows, server_id)

\* a sort order that did not count the rows already there
NextSortOrder_fixed(rows, server_id) == 0

\* SELECT COALESCE(MAX(sort_order), -1) + 1 ... WHERE server_id = server_id
NextSortOrder(rows, server_id) ==
    LET orders == { rows[i].sort_order : i \in { j \in 1..Len(rows) :
                                                  ConflictMatches(rows[j], server_id) } }
    IN  IF orders = {} THEN 0
        ELSE (CHOOSE m \in orders : \A o \in orders : o <= m) + 1

\* the loop over jsonb_to_recordset(server->'install_instructions')
RECURSIVE InsertSupplied(_, _, _)
InsertSupplied(rows, server_id, list) ==
    IF list = <<>> THEN rows
    ELSE InsertSupplied(
             Append(rows, InstructionRow(server_id, Head(list).platform,
                                         Head(list).icon_url, Head(list).install_command,
                                         NextSortOrder(rows, server_id))),
             server_id, Tail(list))

\* defaults that knew the npm registry alone, and one row for it
DefaultInstructions_npmOnly(server_id, package_registry, package_name) ==
    IF package_registry = NULL \/ package_name = NULL THEN <<>>
    ELSE IF package_registry = <<"n","p","m">>
    THEN << InstructionRow(server_id, "Node.js",
                "https://nodejs.org/static/images/logos/nodejs-new-pantone-black.svg",
                <<"n","p","m"," ","i","n","s","t","a","l","l"," ">> \o package_name, 0) >>
    ELSE <<>>

DefaultInstructions(server_id, package_registry, package_name) ==
    IF package_registry = NULL \/ package_name = NULL THEN <<>>
    ELSE IF package_registry = <<"n","p","m">>
    THEN << InstructionRow(server_id, "Node.js",
                "https://nodejs.org/static/images/logos/nodejs-new-pantone-black.svg",
                <<"n","p","m"," ","i","n","s","t","a","l","l"," ">> \o package_name, 0),
            InstructionRow(server_id, "Yarn", "https://yarnpkg.com/favicon.svg",
                <<"y","a","r","n"," ","a","d","d"," ">> \o package_name, 1) >>
    ELSE IF package_registry = <<"p","i","p">> \/ package_registry = <<"p","y","p","i">>
    THEN << InstructionRow(server_id, "Python", "https://www.python.org/static/favicon.ico",
                <<"p","i","p"," ","i","n","s","t","a","l","l"," ">> \o package_name, 0) >>
    ELSE IF package_registry = <<"c","a","r","g","o">>
    THEN << InstructionRow(server_id, "Rust", "https://www.rust-lang.org/favicon.ico",
                <<"c","a","r","g","o"," ","a","d","d"," ">> \o package_name, 0) >>
    ELSE IF package_registry = <<"g","o">>
    THEN << InstructionRow(server_id, "Go", "https://go.dev/favicon.ico",
                <<"g","o"," ","g","e","t"," ">> \o package_name, 0) >>
    ELSE <<>>

\* the instruction table after the delete and the inserts for one entry
SyncInstructions(rows, server_id, server) ==
    LET kept == DeleteInstructions(rows, server_id)
    IN  IF server.install_instructions # <<>>
        THEN InsertSupplied(kept, server_id, server.install_instructions)
        ELSE kept \o DefaultInstructions(server_id, server.package_registry,
                                         server.package_name)


\* ------------------------------------------------------------- the run

\* a line of error_messages: the format string and its arguments
Message(fmt, subject, sqlerrm) == [ fmt |-> fmt, subject |-> subject, sqlerrm |-> sqlerrm ]

\* where the processing of an entry can raise: generate_server_id, the
\* classification and tag extraction of server_data, the INSERT or UPDATE,
\* the statements on server_install_instructions
Faults == {"none", "derive", "classify", "write", "instr"}

AmbiguousColumn == "column reference \"server_id\" is ambiguous"

\* a handler after which the entry's DELETE stayed done
Raised_emptied(server, server_id, sqlerrm, wrote, was_there) ==
    [ servers |-> servers,
      rows |-> IF wrote THEN SelectSeq(install_rows, LAMBDA r : r.server_id # server_id)
               ELSE install_rows,
      added |-> IF wrote /\ ~was_there THEN 1 ELSE 0,
      updated |-> IF wrote /\ was_there THEN 1 ELSE 0,
      skipped |-> 1, errors |-> 1,
      messages |-> << Message("Error processing server %s: %s", server.name, sqlerrm) >>,
      kind |-> "raised", id |-> server_id ]

\* the entry's BEGIN block left through EXCEPTION WHEN OTHERS: the block's
\* writes are rolled back, the counters keep what they were given before
Raised(server, server_id, sqlerrm, wrote, was_there) ==
    [ servers |-> servers, rows |-> install_rows,
      added |-> IF wrote /\ ~was_there THEN 1 ELSE 0,
      updated |-> IF wrote /\ was_there THEN 1 ELSE 0,
      skipped |-> 1, errors |-> 1,
      messages |-> << Message("Error processing server %s: %s", server.name, sqlerrm) >>,
      kind |-> "raised", id |-> server_id ]

\* a write counted without looking at whether a record was affected
WriteReported_ignoresResult(affected, row) == RowIsNotNull(row)

\* IF insert_result IS NOT NULL / IF update_result IS NOT NULL
WriteReported(affected, row) == affected /\ RowIsNotNull(row)

\* One iteration of the FOR loop over response->'servers'.  server_id is what
\* generate_server_id returned, tags what extract_tags returned, fault where
\* the environment makes a statement raise, affected whether the INSERT or
\* UPDATE returned a row.
ReconcileEntry(server, server_id, fault, affected, tags) ==
    LET data == server_data(server, server_id, tags)
        was_there == server_id \in DOMAIN servers
        row == IF was_there THEN UpdatedRow(servers[server_id], data)
               ELSE InsertedRow(data)
        written == IF affected
                   THEN [ x \in DOMAIN servers \cup {server_id} |->
                            IF x = server_id THEN row ELSE servers[x] ]
                   ELSE servers
    IN  IF fault \in {"derive", "classify", "write"}
        THEN Raised(server, server_id, fault, FALSE, was_there)
        ELSE IF ~WriteReported(affected, row)
        THEN [ servers |-> written, rows |-> install_rows,
               added |-> 0, updated |-> 0, skipped |-> 1, errors |-> 0,
               messages |-> << Message(IF was_there THEN "Failed to update server %s"
                                       ELSE "Failed to insert server %s",
                                       server_id, "") >>,
               kind |-> IF was_there THEN "update_failed" ELSE "insert_failed",
               id |-> server_id ]
        ELSE IF variable_conflict = "error"
        THEN Raised(server, server_id, AmbiguousColumn, TRUE, was_there)
        ELSE IF fault = "instr"
        THEN Raised(server, server_id, fault, TRUE, was_there)
        ELSE [ servers |-> written,
               rows |-> SyncInstructions(install_rows, server_id, server),
               added |-> IF was_there THEN 0 ELSE 1,
               updated |-> IF was_there THEN 1 ELSE 0,
               skipped |-> 0, errors |-> 0, messages |-> <<>>,
               kind |-> IF was_there THEN "updated" ELSE "inserted",
               id |-> server_id ]

\* the variables of the DECLARE section live in a call of the function only:
\* a process that begins finds none of an earlier call
NoCallInProgress ==
    /\ next_url' = NoUrl
    /\ response' = NoResponse
    /\ pos' = 1
    /\ server_count' = 0 /\ added_count' = 0 /\ updated_count' = 0
    /\ skipped_count' = 0 /\ error_count' = 0
    /\ error_messages' = <<>>
    /\ fetched' = <<>>
    /\ log' = <<>>

\* SELECT sync_mcp_servers_from_pulsemcp(): the declarations
StartRun ==
    /\ pc \in {"idle", "done", "http_done", "exited"}
    /\ harness' = Running("sync_mcp_direct", "none", TRUE)
    /\ now < MaxRuns
    /\ now' = now + 1
    /\ pc' = "loop"
    /\ next_url' = api_url
    /\ response' = NoResponse
    /\ pos' = 1
    /\ server_count' = 0 /\ added_count' = 0 /\ updated_count' = 0
    /\ skipped_count' = 0 /\ error_count' = 0
    /\ error_messages' = <<>>
    /\ result' = NoResult
    /\ fetched' = <<>>
    /\ log' = <<>>
    /\ UNCHANGED << variable_conflict, source, servers, install_rows,
                    args, out >>

\* the http GET of next_url answers with a page
FetchPage ==
    /\ pc = "loop"
    /\ next_url # NoUrl
    /\ response' = Page(source, next_url)
    /\ pos' = 1
    /\ pc' = "entries"
    /\ fetched' = Append(fetched, [ url |-> next_url, ok |-> TRUE, slept |-> 0 ])
    /\ UNCHANGED << variable_conflict, source, servers, install_rows, now, next_url,
                    server_count, added_count, updated_count, skipped_count,
                    error_count, error_messages, result, log,
                    harness, args, out >>

\* a page handler that left next_url alone, so that the WHILE loop fetched again
AfterPageError_retry == next_url

\* next_url := NULL; -- Stop processing
AfterPageError == NoUrl

\* the http GET raises, or its content is no page: the page's EXCEPTION handler
FetchFails ==
    /\ pc = "loop"
    /\ next_url # NoUrl
    /\ error_count' = error_count + 1
    /\ error_messages' = Append(error_messages,
                                Message("Error fetching page: %s", <<>>, "fetch"))
    /\ next_url' = AfterPageError
    /\ fetched' = Append(fetched, [ url |-> next_url, ok |-> FALSE, slept |-> 0 ])
    /\ UNCHANGED << variable_conflict, source, servers, install_rows, now, pc, response,
                    pos, server_count, added_count, updated_count, skipped_count,
                    result, log,
                    harness, args, out >>

\* the entries of this run that the environment disturbed
Disturbed(entry) == entry.fault # "none" \/ ~entry.affected

Disturbances == Cardinality({ i \in 1..Len(log) : Disturbed(log[i]) })

ProcessEntry ==
    /\ pc = "entries"
    /\ pos <= Len(response.servers)
    /\ \E tags \in extract_tags(response.servers[pos].name,
                               response.servers[pos].short_description) :
         \E fault \in IF Disturbances < MaxFaults THEN Faults ELSE {"none"} :
           \* a write that is never executed reports nothing
           \E affected \in IF fault \in {"none", "instr"} /\ Disturbances < MaxFaults
                            THEN BOOLEAN ELSE {TRUE} :
             \E o \in { ReconcileEntry(response.servers[pos],
                                       generate_server_id(
                                           response.servers[pos].name,
                                           response.servers[pos].source_code_url),
                                       fault, affected, tags) } :
                 /\ server_count' = server_count + 1
                 /\ servers' = o.servers
                 /\ install_rows' = o.rows
                 /\ added_count' = added_count + o.added
                 /\ updated_count' = updated_count + o.updated
                 /\ skipped_count' = skipped_count + o.skipped
                 /\ error_count' = error_count + o.errors
                 /\ error_messages' = error_messages \o o.messages
                 /\ log' = Append(log, [ kind |-> o.kind, id |-> o.id, fault |-> fault,
                                         affected |-> affected,
                                         page |-> fetched[Len(fetched)].url,
                                         index |-> pos ])
    /\ pos' = pos + 1
    /\ UNCHANGED << variable_conflict, source, now, pc, next_url, response, result,
                    fetched,
                    harness, args, out >>

\* a cursor that never advanced: after a page the loop would start over
NextCursor_restart(page) == api_url

\* response->>'next'
NextCursor(page) == page.next

\* a delay after every page, the last one too
Delay_always(url) == 1

\* IF next_url IS NOT NULL THEN PERFORM pg_sleep(0.5): how many delays
Delay(url) == IF url # NoUrl THEN 1 ELSE 0

\* after the FOR loop: next_url := response->>'next', then the delay, which
\* is recorded with the page it follows
EndPage ==
    /\ pc = "entries"
    /\ pos > Len(response.servers)
    /\ next_url' = NextCursor(response)
    /\ fetched' = [ fetched EXCEPT ![Len(fetched)].slept = @ + Delay(next_url') ]
    /\ pc' = "loop"
    /\ UNCHANGED << variable_conflict, source, servers, install_rows, now, response, pos,
                    server_count, added_count, updated_count, skipped_count,
                    error_count, error_messages, result, log,
                    harness, args, out >>

\* statistics that kept the first message only
Stats_firstError ==
    [ total |-> server_count, added |-> added_count, updated |-> updated_count,
      skipped |-> skipped_count,
      errors |-> SubSeq(error_messages, 1, IF error_messages = <<>> THEN 0 ELSE 1) ]

Stats ==
    [ total |-> server_count, added |-> added_count, updated |-> updated_count,
      skipped |-> skipped_count, errors |-> error_messages ]

\* the WHILE loop is left: RETURN jsonb_build_object(...)
Return ==
    /\ pc = "loop"
    /\ next_url = NoUrl
    /\ result' = [ success |-> TRUE, message |-> "MCP servers sync completed",
                   stats |-> Stats ]
    /\ pc' = "done"
    /\ UNCHANGED << variable_conflict, source, servers, install_rows, now, next_url,
                    response, pos, server_count, added_count, updated_count,
                    skipped_count, error_count, error_messages, fetched, log,
                    harness, args, out >>

\* ------------------------------------------- the HTTP entry point

\* what the sync-pulse-servers edge function answers with status 200
EdgeFunctionReply ==
    [ success |-> TRUE, message |-> "Successfully synced servers",
      stats |-> [ total |-> 0, added |-> 0, updated |-> 0, skipped |-> 0,
                  errors |-> <<>> ] ]

\* a request sent before the key is looked at
Posted_always(key_set) == TRUE

\* requests.post is reached only behind the test of the key
Posted(key_set) == key_set

\* sync_mcp_servers() of scripts/sync_mcp_servers.py: key_set is whether
\* SUPABASE_SERVICE_ROLE_KEY is set and not empty, reply what requests.post
\* met.  Without the key ValueError is raised and nothing is returned.
sync_mcp_servers(key_set, reply) ==
    IF ~key_set THEN NoResult
    ELSE IF reply = "200" THEN EdgeFunctionReply
    ELSE IF reply = "status"
    THEN [ success |-> FALSE, message |-> "Error %d: %s" ]
    ELSE [ success |-> FALSE, message |-> "Connection error: %s" ]

InvokeEdgeFunction ==
    /\ pc \in {"idle", "done", "http_done", "exited"}
    /\ now < MaxRuns
    /\ \E script \in {"sync_mcp_servers", "sync_with_key"},
          key \in {"absent", "empty", "set"},
          reply \in {"200", "status", "exception"} :
         \* sync_with_key.py reads the key from argv and has left before the
         \* call when there is none
         /\ script = "sync_with_key" => key # "absent"
         /\ result' = sync_mcp_servers(key = "set", reply)
         /\ harness' = Running(script, key, Posted(key = "set"))
    /\ now' = now + 1
    /\ pc' = "http_done"
    /\ NoCallInProgress
    /\ UNCHANGED << variable_conflict, source, servers, install_rows, args, out >>

\* ------------------------------------------- the SQL functions, called

\* how many calls a behaviour holds
MaxCalls == 2

CallNames ==
    { <<"D","e","m","o"," ","A","u","t","h">>,
      <<"d","b"," ","k","i","t">>,
      <<"A","-","-","b"," ","C">>,
      <<"x","_","Y",".","z","9">>,
      <<"w","e","b">>,
      <<"D","B">> }

CallUrls ==
    { <<"h","t","t","p","s",":","/","/","g","i","t","h","u","b",".","c","o","m","/","a","c","m","e","/","d","e","m","o","-","a","u","t","h">>,
      <<"g","i","t","@","g","i","t","h","u","b",".","c","o","m",":","A","b","/","c",".","d",".","g","i","t">>,
      <<"g","l",".","i","o","/","k","i","t">>,
      <<"h","t","t","p","s",":","/","/","g","i","t","h","u","b",".","c","o","m","/","A","c","m","e","/","R","e","_","p","o","/","x">>,
      <<"g","i","t","h","u","b",".","c","o","m","/","s","o","l","o">>,
      <<"h","t","t","p",":","/","/","g","i","t","h","u","b",".","c","o","m","/","a","/","b",".","g","i","t">>,
      NULL }

CallDescriptions ==
    { <<"a","u","t","h"," ","f","o","r"," ","a","p","p","s">>,
      <<"a"," ","d","a","t","a","b","a","s","e">>,
      <<"L","o","g","i","n"," ","v","i","a"," ","H","T","T","P">>,
      <<"s","t","o","r","a","g","e"," ","o","f"," ","f","i","l","e","s">>,
      <<"A","I"," ","w","e","b"," ","t","o","o","l">>,
      <<"a"," ","d","o","c","u","m","e","n","t">>,
      <<"w","e","b">>,
      <<"p","l","a","i","n">>,
      <<"L","L","M"," ","d","a","t","a","b","a","s","e">>,
      NULL }

CallRegistries ==
    { <<"n","p","m">>,
      <<"p","i","p">>,
      <<"p","y","p","i">>,
      <<"c","a","r","g","o">>,
      <<"g","o">>,
      <<"g","e","m">>,
      NULL }

CallPackages == { <<"k","i","t">>, NULL }

CallLists ==
    { <<>>,
      << [platform |-> "macOS", icon_url |-> "mac.svg",
          install_command |-> <<"b","r","e","w">>],
         [platform |-> "Docker", icon_url |-> "docker.svg",
          install_command |-> <<"r","u","n">>] >> }

\* SELECT generate_server_id(name, github_url).  ranges is how the regex
\* engine of the database takes the bracket expression of line 96, whose
\* "9-/" has no defined reading: "-" as one more character of the class, or
\* an invalid range.
IdArgs ==
    [ fn : {"generate_server_id"}, name : CallNames, github_url : CallUrls,
      ranges : {"literal", "rejected"} ]

\* SELECT determine_category(name, description)
CategoryArgs ==
    [ fn : {"determine_category"}, name : CallNames, description : CallDescriptions ]

\* the instruction block for an entry of these fields
InstructionArgs ==
    [ fn : {"install_instructions"}, package_registry : CallRegistries,
      package_name : CallPackages, install_instructions : CallLists ]

CallTagNames == { <<"D","e","m","o"," ","A","u","t","h">>, <<"d","b">>, NULL }

CallTagDescriptions ==
    { <<"A","u","t","h"," ","f","o","r"," ","t","h","e"," ","D","B">>,
      <<"T","h","i","s"," ","i","s"," ","a"," ","k","i","t",";"," ","t","h","e"," ","K","I","T"," ","o","f"," ","k","i","t","s">>,
      <<"t","h","e"," ","o","n","e"," ","t","w","o"," ","s","i","x"," ","t","e","n"," ","c","a","t"," ","d","o","g"," ","f","o","x"," ","h","e","n"," ","o","w","l"," ","p","i","g"," ","r","a","t"," ","o","f"," ","d","e","m","o">>,
      NULL }

\* SELECT extract_tags(name, description).  unnest is how the database takes
\* the word "unnest" in the WHERE clause of lines 136-137, which has no FROM:
\* as the value the target list unnests, or as a column that does not exist.
TagArgs ==
    [ fn : {"extract_tags"}, name : CallTagNames, description : CallTagDescriptions,
      unnest : {"resolved", "rejected"} ]

\* the identifier the instruction block is run for
CallId == <<"d","b","-","k","i","t">>

CallInit ==
    /\ variable_conflict \in {"error", "use_variable", "use_column"}
    /\ source = << <<>> >>
    /\ \E st \in Stores : servers = st.servers /\ install_rows = st.rows
    /\ now = 0
    /\ pc = "call"
    /\ next_url = NoUrl
    /\ response = NoResponse
    /\ pos = 1
    /\ server_count = 0 /\ added_count = 0 /\ updated_count = 0
    /\ skipped_count = 0 /\ error_count = 0
    /\ error_messages = <<>>
    /\ result = NoResult
    /\ fetched = <<>>
    /\ log = <<>>
    /\ harness = NoHarness
    /\ args \in IdArgs \cup CategoryArgs \cup InstructionArgs \cup TagArgs
    /\ out = NoOut

\* line 96 is reached and the engine rejects its pattern
RangeRejected(github_url, ranges) ==
    /\ ranges = "rejected"
    /\ github_url # NULL
    /\ Len(regexp_matches(github_url)) = 2

Returned(n, value) ==
    [ fn |-> args.fn, nth |-> n, raised |-> FALSE, value |-> value ]

RaisedCall(n) == [ fn |-> args.fn, nth |-> n, raised |-> TRUE, value |-> NULL ]

CallGenerateServerId ==
    /\ pc = "call"
    /\ args.fn = "generate_server_id"
    /\ out.nth < MaxCalls
    /\ out' = IF RangeRejected(args.github_url, args.ranges)
              THEN RaisedCall(out.nth + 1)
              ELSE Returned(out.nth + 1, generate_server_id(args.name, args.github_url))
    /\ UNCHANGED << variable_conflict, source, servers, install_rows, now, pc, next_url,
                    response, pos, server_count, added_count, updated_count,
                    skipped_count, error_count, error_messages, result, fetched, log,
                    harness, args >>

CallDetermineCategory ==
    /\ pc = "call"
    /\ args.fn = "determine_category"
    /\ out.nth < MaxCalls
    /\ out' = Returned(out.nth + 1, determine_category(args.name, args.description))
    /\ UNCHANGED << variable_conflict, source, servers, install_rows, now, pc, next_url,
                    response, pos, server_count, added_count, updated_count,
                    skipped_count, error_count, error_messages, result, fetched, log,
                    harness, args >>

\* the DELETE and the instruction block of one entry, on the table as it is;
\* with variable_conflict = error the DELETE raises and nothing is written
CallInstallInstructions ==
    /\ pc = "call"
    /\ args.fn = "install_instructions"
    /\ out.nth < MaxCalls
    /\ IF variable_conflict = "error"
       THEN /\ out' = RaisedCall(out.nth + 1)
            /\ UNCHANGED install_rows
       ELSE /\ install_rows' = SyncInstructions(install_rows, CallId, args)
            /\ out' = Returned(out.nth + 1, install_rows')
    /\ UNCHANGED << variable_conflict, source, servers, now, pc, next_url,
                    response, pos, server_count, added_count, updated_count,
                    skipped_count, error_count, error_messages, result, fetched, log,
                    harness, args >>

CallExtractTags ==
    /\ pc = "call"
    /\ args.fn = "extract_tags"
    /\ out.nth < MaxCalls
    /\ IF args.unnest = "rejected"
       THEN out' = RaisedCall(out.nth + 1)
       ELSE \E tags \in TagArrays(args.name, args.description) :
              out' = Returned(out.nth + 1, tags)
    /\ UNCHANGED << variable_conflict, source, servers, install_rows, now, pc, next_url,
                    response, pos, server_count, added_count, updated_count,
                    skipped_count, error_count, error_messages, result, fetched, log,
                    harness, args >>

\* another session changes the tables between two calls
OtherSession ==
    /\ pc = "call"
    /\ \E st \in Stores :
         /\ st.servers # servers
         /\ servers' = st.servers
         /\ install_rows' = st.rows
    /\ UNCHANGED << variable_conflict, source, now, pc, next_url,
                    response, pos, server_count, added_count, updated_count,
                    skipped_count, error_count, error_messages, result, fetched, log,
                    harness, args, out >>

CallNext ==
    \/ CallGenerateServerId
    \/ CallDetermineCategory
    \/ CallInstallInstructions
    \/ CallExtractTags
    \/ OtherSession

CallSpec == CallInit /\ [][CallNext]_vars

\* --------------------------------------------------- the scripts' main()

\* run_sync_operation() of scripts/sync_mcp_direct.py: command is what became
\* of the MCP command that runs the SQL function, sync_result what the
\* function returned.  ret = NoResult stands for None.
run_sync_operation(command, sync_result) ==
    IF command = "failed"
    THEN [ ret |-> NoResult, shown |-> {"failure"} ]
    ELSE IF "success" \in DOMAIN sync_result /\ sync_result.success
    THEN [ ret |-> sync_result, shown |-> {"success"} ]
    ELSE [ ret |-> NoResult, shown |-> {"failure"} ]

\* print_sync_stats(): the itemized statistics, or "No statistics available"
print_sync_stats(sync_result) ==
    IF "stats" \in DOMAIN sync_result THEN {"stats"} ELSE {"no_stats"}

\* main() of scripts/sync_mcp_direct.py from run_sync_operation() on
main_direct(h, outcome, sync_result) ==
    IF outcome = "interrupted" THEN Exited(h, 130, {"interrupted"})
    ELSE IF outcome = "exception" THEN Exited(h, 1, {"error"})
    ELSE LET op == run_sync_operation(outcome, sync_result)
         IN  IF op.ret # NoResult
             THEN Exited(h, 0, op.shown \cup print_sync_stats(op.ret))
             ELSE Exited(h, 1, op.shown)

\* the SQL function has returned to the script that called it
DirectMain ==
    /\ pc = "done"
    /\ harness.script = "sync_mcp_direct" /\ ~harness.exited
    /\ \E outcome \in {"returned", "failed", "interrupted", "exception"} :
         harness' = main_direct(harness, outcome, result)
    /\ pc' = "exited"
    /\ NoCallInProgress
    /\ UNCHANGED << variable_conflict, source, servers, install_rows, now, result,
                    args, out >>

\* KeyboardInterrupt while run_sync_operation() waits for the MCP command:
\* main() prints and leaves with 130.  Nothing in the script tells the
\* database, where the function that the command started goes on.
Interrupt ==
    /\ pc \in {"loop", "entries"}
    /\ harness.script = "sync_mcp_direct" /\ ~harness.exited
    /\ harness' = main_direct(harness, "interrupted", NoResult)
    /\ UNCHANGED << variable_conflict, source, servers, install_rows, now, pc, next_url,
                    response, pos, server_count, added_count, updated_count,
                    skipped_count, error_count, error_messages, result, fetched, log,
                    args, out >>

\* main(): if not create_sync_functions(): sys.exit(1)
CreateFails ==
    /\ pc \in {"idle", "done", "http_done", "exited"}
    /\ now < MaxRuns
    /\ now' = now + 1
    /\ harness' = Exited(Running("sync_mcp_direct", "none", TRUE), 1, {"create_failed"})
    /\ pc' = "exited"
    /\ NoCallInProgress
    /\ result' = NoResult
    /\ UNCHANGED << variable_conflict, source, servers, install_rows, args, out >>

\* print_stats(result.get("stats")) of the two HTTP scripts
print_stats(reply) ==
    IF "stats" \in DOMAIN reply THEN {"stats"} ELSE {"no_stats"}

\* main() of scripts/sync_mcp_servers.py and of scripts/sync_with_key.py after
\* sync_mcp_servers(): reply = NoResult stands for the ValueError it raised
main_http(h, reply) ==
    IF reply = NoResult THEN Exited(h, 1, {"error"})
    ELSE IF reply.success THEN Exited(h, 0, {"success"} \cup print_stats(reply))
    ELSE Exited(h, 1, {"failure"})

HttpMain ==
    /\ pc = "http_done"
    /\ harness' = main_http(harness, result)
    /\ pc' = "exited"
    /\ NoCallInProgress
    /\ UNCHANGED << variable_conflict, source, servers, install_rows, now, result,
                    args, out >>

\* main() of scripts/sync_with_key.py without a command-line argument
MissingArgument ==
    /\ pc \in {"idle", "done", "http_done", "exited"}
    /\ now < MaxRuns
    /\ now' = now + 1
    /\ harness' = Exited(Running("sync_with_key", "absent", FALSE), 1, {"usage"})
    /\ pc' = "exited"
    /\ NoCallInProgress
    /\ result' = NoResult
    /\ UNCHANGED << variable_conflict, source, servers, install_rows, args, out >>

Next ==
    \/ StartRun
    \/ FetchPage
    \/ FetchFails
    \/ ProcessEntry
    \/ EndPage
    \/ Return
    \/ InvokeEdgeFunction
    \/ DirectMain
    \/ Interrupt
    \/ CreateFails
    \/ HttpMain
    \/ MissingArgument

Spec == Init /\ [][Next]_vars


\* ------------------------------------------------------------- helpers

Last(seq) == seq[Len(seq)]

\* the instruction rows of one record, in table order
RECURSIVE OwnedRows(_, _)
OwnedRows(rows, id) ==
    IF rows = <<>> THEN <<>>
    ELSE IF Head(rows).server_id = id THEN <<Head(rows)>> \o OwnedRows(Tail(rows), id)
    ELSE OwnedRows(Tail(rows), id)

\* the environment left this run alone: every fetch answered, no statement
\* raised from outside, every write returned its row
Undisturbed ==
    /\ \A i \in 1..Len(fetched) : fetched[i].ok
    /\ \A i \in 1..Len(log) : ~Disturbed(log[i])

\* no record of the store is older than this run
StoreWasEmpty == \A id \in DOMAIN servers : servers[id].created_at = now


\* ---------------------------------------------------------------- C1

\* C1: a pass over a single unchanged entry that the environment leaves alone
\* inserts when the store had no record of the entry's identifier (added = 1,
\* updated = 0, the record is there afterwards) and updates when an earlier
\* pass inserted it (added = 0, updated = 1).
C1_IdempotentUpsert ==
    (pc = "done" /\ Undisturbed /\ Len(source) = 1 /\ Len(source[1]) = 1) =>
        LET e == source[1][1]
            id == generate_server_id(e.name, e.source_code_url)
            fresh == id \in DOMAIN servers => servers[id].created_at = now
        IN  /\ fresh => /\ added_count = 1 /\ updated_count = 0
                        /\ id \in DOMAIN servers
            /\ ~fresh => added_count = 0 /\ updated_count = 1

\* ---------------------------------------------------------------- C2

\* the rows the entry asks for, without their sort orders
RequestedInstructions(server_id, server) ==
    IF server.install_instructions # <<>>
    THEN server.install_instructions
    ELSE DefaultInstructions(server_id, server.package_registry, server.package_name)

\* C2: when an entry has been inserted or updated and its instructions
\* synchronized, the rows of its record are the rows of this entry, in order,
\* and nothing else, with sort orders 0, 1, ..., n-1.
C2_InstructionsReplaced ==
    [][ ( /\ pc = "entries"
          /\ Len(log') = Len(log) + 1
          /\ Last(log').kind \in {"inserted", "updated"} ) =>
        LET server == response.servers[pos]
            id == Last(log').id
            owned == OwnedRows(install_rows', id)
            asked == RequestedInstructions(id, server)
        IN  /\ Len(owned) = Len(asked)
            /\ \A i \in 1..Len(owned) :
                 /\ owned[i].platform = asked[i].platform
                 /\ owned[i].icon_url = asked[i].icon_url
                 /\ owned[i].install_command = asked[i].install_command
                 /\ owned[i].sort_order = i - 1 ]_vars

\* an update of the seeded record, whose two old rows (sort orders 0 and 5)
\* gave way to the one Python row of the entry
C2_Witness ==
    /\ log # <<>>
    /\ Last(log).kind = "updated"
    /\ Last(log).id = <<"d","b","-","k","i","t">>
    /\ servers[<<"d","b","-","k","i","t">>].created_at = 0
    /\ Len(OwnedRows(install_rows, <<"d","b","-","k","i","t">>)) = 1
    /\ OwnedRows(install_rows, <<"d","b","-","k","i","t">>)[1].platform = "Python"

\* ---------------------------------------------------------------- C3

RaisedEntries == { i \in 1..Len(log) : log[i].kind = "raised" }

FailedFetches == { i \in 1..Len(fetched) : ~fetched[i].ok }

\* C3: every entry that raises adds one to the error count and to the skipped
\* count and one "Error processing server" message, the entries after it are
\* all processed, and a page of 3 entries of which only the second is made to
\* raise ends with 2 successes and 1 error/skip.
C3_FaultIsolation ==
    /\ error_count = Cardinality(RaisedEntries) + Cardinality(FailedFetches)
    /\ skipped_count >= Cardinality(RaisedEntries)
    /\ Cardinality({ i \in 1..Len(error_messages) :
                       error_messages[i].fmt = "Error processing server %s: %s" })
         = Cardinality(RaisedEntries)
    /\ pc = "done" =>
         \A i \in 1..Len(fetched) :
           fetched[i].ok =>
             \A k \in 1..Len(source[fetched[i].url]) :
               \E j \in 1..Len(log) : log[j].page = fetched[i].url /\ log[j].index = k
    /\ ( /\ pc = "done"
         /\ \A i \in 1..Len(fetched) : fetched[i].ok
         /\ Len(log) = 3
         /\ log[2].kind = "raised" /\ log[2].fault # "none"
         /\ ~Disturbed(log[1]) /\ ~Disturbed(log[3]) ) =>
           /\ added_count + updated_count = 2
           /\ skipped_count = 1
           /\ error_count = 1

\* ---------------------------------------------------------------- C4

\* C4: a run in which a page fetch failed returns success = false, with the
\* statistics gathered so far and the page error among its messages.
C4_PageFailureIsFailure ==
    (pc = "done" /\ FailedFetches # {}) =>
        /\ result.success = FALSE
        /\ result.stats = Stats
        /\ \E i \in 1..Len(result.stats.errors) :
             result.stats.errors[i].fmt = "Error fetching page: %s"

\* ---------------------------------------------------------------- C5

\* C5: nothing is fetched after a failed fetch, the failure ends the
\* pagination, no page is fetched twice in a run and no entry is processed
\* twice in a run.
C5_NoRetry ==
    /\ \A i \in 1..(Len(fetched) - 1) : fetched[i].ok
    /\ (fetched # <<>> /\ ~Last(fetched).ok) => next_url = NoUrl
    /\ \A i, j \in 1..Len(fetched) : i # j => fetched[i].url # fetched[j].url
    /\ \A i, j \in 1..Len(log) :
         i # j => <<log[i].page, log[i].index>> # <<log[j].page, log[j].index>>

\* a run that ended on the failed fetch of its second page, after the
\* entries of the first
C5_Witness ==
    /\ pc = "done"
    /\ Len(fetched) = 2
    /\ ~Last(fetched).ok
    /\ Len(log) >= 1

\* ---------------------------------------------------------------- C6

\* the pages are fetched in chain order, never more than the chain holds, and
\* a finished run whose fetches all answered has fetched every one of them
FetchedInChainOrder ==
    /\ \A i \in 1..Len(fetched) : fetched[i].url = i
    /\ Len(fetched) <= Len(source)
    /\ (pc = "done" /\ FailedFetches = {}) => Len(fetched) = Len(source)

\* the steps a run can still take from the fetch of page url on: per page
\* its fetch, its entries and the reading of its cursor
RECURSIVE StepsFrom(_)
StepsFrom(url) ==
    IF url = NoUrl \/ url > Len(source) THEN 0
    ELSE Len(source[url]) + 2 + StepsFrom(Page(source, url).next)

\* a bound on the steps the run in progress has left before it is done
StepsLeft ==
    IF pc = "loop" THEN StepsFrom(next_url) + 1
    ELSE IF pc = "entries"
    THEN (Len(response.servers) - pos + 1) + 1 + StepsFrom(response.next) + 1
    ELSE 0

\* C6: a run fetches the pages of the chain in chain order, exactly the n of
\* them when every fetch answers, and it reaches DONE: every step of a run in
\* progress (a step of the function, not the script's process leaving) brings
\* the bound on the steps left down.
C6_PaginationTerminates ==
    /\ []FetchedInChainOrder
    /\ [][ ((pc = "loop" \/ pc = "entries") /\ harness' = harness) =>
               (StepsLeft' < StepsLeft /\ StepsLeft' >= 0) ]_vars

\* P1 (next = P2), P2 (no next): two pages fetched, then done
C6_Witness ==
    /\ pc = "done"
    /\ Len(source) = 2
    /\ Len(fetched) = 2
    /\ fetched[1].url = 1 /\ fetched[1].ok
    /\ fetched[2].url = 2 /\ fetched[2].ok

\* ---------------------------------------------------------------- C7

DemoId == <<"a","c","m","e","/","d","e","m","o","-","a","u","t","h">>

\* C7: on an empty store, the single page holding the Demo Auth entry gives
\* the record acme/demo-auth of category auth, the two rows Node.js (sort
\* order 0) and Yarn (sort order 1), and the statistics total 1, added 1,
\* updated 0, skipped 0.
C7_EndToEnd ==
    (pc = "done" /\ Undisturbed /\ source = << <<EDemo>> >> /\ StoreWasEmpty) =>
        /\ DemoId \in DOMAIN servers
        /\ servers[DemoId].category = "auth"
        /\ LET r == OwnedRows(install_rows, DemoId)
           IN  /\ Len(r) = 2
               /\ r[1].platform = "Node.js" /\ r[1].sort_order = 0
               /\ r[1].install_command = <<"n","p","m"," ","i","n","s","t","a","l","l"," ","d","e","m","o","-","a","u","t","h">>
               /\ r[2].platform = "Yarn" /\ r[2].sort_order = 1
               /\ r[2].install_command = <<"y","a","r","n"," ","a","d","d"," ","d","e","m","o","-","a","u","t","h">>
        /\ result.stats.total = 1 /\ result.stats.added = 1
        /\ result.stats.updated = 0 /\ result.stats.skipped = 0

\* ---------------------------------------------------------------- C8

\* C8: a record keeps its creation timestamp for ever; a record that a step
\* inserts gets the time of the pass as creation and as last-update
\* timestamp; a record that a step changes gets the time of the pass as
\* last-update timestamp, which never decreases and is never earlier than
\* the creation timestamp.
C8_Timestamps ==
    [][ /\ \A id \in DOMAIN servers :
             /\ id \in DOMAIN servers'
             /\ servers'[id].created_at = servers[id].created_at
             /\ servers'[id].updated_at >= servers[id].updated_at
             /\ servers'[id] # servers[id] => servers'[id].updated_at = now
        /\ \A id \in DOMAIN servers' \ DOMAIN servers :
             servers'[id].created_at = now /\ servers'[id].updated_at = now
        /\ \A id \in DOMAIN servers' :
             servers'[id].created_at <= servers'[id].updated_at ]_vars

\* a record inserted by the first pass and updated by the second
C8_Witness ==
    \E id \in DOMAIN servers :
        servers[id].created_at = 1 /\ servers[id].updated_at = 2

\* ---------------------------------------------------------------- C9

\* C9: when the INSERT or UPDATE of an entry returns no row, that step adds
\* one to the skipped count, appends one "Failed to ..." message naming the
\* identifier, leaves the added, updated and error counts alone and moves
\* on to the next entry of the page.
C9_LostWriteIsSkipped ==
    [][ ( /\ pc = "entries"
          /\ Len(log') = Len(log) + 1
          /\ Last(log').fault \in {"none", "instr"}
          /\ ~Last(log').affected ) =>
        /\ skipped_count' = skipped_count + 1
        /\ added_count' = added_count
        /\ updated_count' = updated_count
        /\ error_count' = error_count
        /\ Len(error_messages') = Len(error_messages) + 1
        /\ Last(error_messages').fmt \in {"Failed to insert server %s",
                                          "Failed to update server %s"}
        /\ Last(error_messages').subject = Last(log').id
        /\ pc' = "entries"
        /\ pos' = pos + 1 ]_vars

\* an UPDATE that returned no row, and the entry after it processed
C9_Witness ==
    /\ Len(log) >= 2
    /\ ~log[1].affected
    /\ log[1].kind = "update_failed"
    /\ skipped_count >= 1

\* --------------------------------------------------------------- C10

\* C10: whatever a run entry point returns carries success, message and
\* stats.
C10_ResultShape ==
    result # NoResult => {"success", "message", "stats"} \subseteq DOMAIN result

\* --------------------------------------------------------------- C11

\* the process has left, and it is the process that ran the function whose
\* result the state still holds
ExitedAfterRun ==
    /\ pc = "exited"
    /\ harness.script = "sync_mcp_direct"
    /\ harness.exited
    /\ "create_failed" \notin harness.shown

\* the result of a run in which a page fetch failed carries its message
PageErrorIn(r) ==
    /\ "stats" \in DOMAIN r
    /\ \E i \in 1..Len(r.stats.errors) : r.stats.errors[i].fmt = "Error fetching page: %s"

\* C11: a process that has left has exit code 0 only when the run result is
\* a success and 1 when the result is a failure, 130 when it was
\* interrupted, and never 0 after a run in which a page fetch failed.
C11_ExitCode ==
    (pc = "exited" /\ harness.exited) =>
        /\ harness.code \in {0, 1, 130}
        /\ harness.code = 0 => (result # NoResult /\ result.success)
        /\ (harness.script \in {"sync_mcp_servers", "sync_with_key"}
              /\ harness.key = "set" /\ ~result.success) => harness.code = 1
        /\ "interrupted" \in harness.shown <=> harness.code = 130
        /\ (ExitedAfterRun /\ PageErrorIn(result)) => harness.code # 0

\* --------------------------------------------------------------- C12

\* C12: a script that was given no credential (variable unset or empty, no
\* argument or an empty one) sends no request, gets no reply, and leaves
\* with exit code 1.
C12_MissingKeyFailsFast ==
    (harness.script \in {"sync_mcp_servers", "sync_with_key"}
       /\ harness.key \in {"absent", "empty"}) =>
        /\ ~harness.requested
        /\ pc \in {"http_done", "exited"}
        /\ pc = "http_done" => result = NoResult
        /\ pc = "exited" => (harness.exited /\ harness.code = 1)

\* SUPABASE_SERVICE_ROLE_KEY set to the empty string: ValueError, exit code 1
C12_Witness ==
    /\ pc = "exited"
    /\ harness.script = "sync_mcp_servers" /\ harness.key = "empty"
    /\ harness.exited /\ harness.code = 1 /\ ~harness.requested
    /\ "error" \in harness.shown

\* --------------------------------------------------------------- C13

\* the process has left after a run that came to a result: not interrupted,
\* not ended by an exception, not stopped before the run began
ExitedWithResult ==
    /\ pc = "exited" /\ harness.exited
    /\ \/ ExitedAfterRun
       \/ harness.script \in {"sync_mcp_servers", "sync_with_key"} /\ harness.key = "set"
    /\ harness.shown \cap {"interrupted", "error"} = {}

\* C13: a run that came to a result, success or failure, has shown a success
\* or failure message and the itemized statistics.
C13_AlwaysReports ==
    ExitedWithResult =>
        /\ harness.shown \cap {"success", "failure"} # {}
        /\ "stats" \in harness.shown

\* --------------------------------------------------------------- C14

\* the entry that the i-th step of this run processed
EntryOf(i) == source[log[i].page][log[i].index]

\* no record of identifier id is older than this run
AbsentBefore(id) == id \in DOMAIN servers => servers[id].created_at = now

\* C14: when a run that nothing disturbs has processed two distinct entries
\* of one identifier that the store did not hold, the first was inserted,
\* the second updated it, and the store holds one record of that identifier
\* with the fields and the instruction rows of the second.
C14_LastWriteWins ==
    (pc = "done" /\ Undisturbed) =>
        \A i, j \in 1..Len(log) :
            ( /\ i < j
              /\ log[i].id = log[j].id
              /\ EntryOf(i) # EntryOf(j)
              /\ \A k \in 1..Len(log) : log[k].id = log[i].id => k \in {i, j}
              /\ AbsentBefore(log[i].id) ) =>
                LET id == log[j].id
                    later == EntryOf(j)
                    asked == RequestedInstructions(id, later)
                    owned == OwnedRows(install_rows, id)
                IN  /\ log[i].kind = "inserted"
                    /\ log[j].kind = "updated"
                    /\ id \in DOMAIN servers
                    /\ servers[id].name = later.name
                    /\ servers[id].description = later.short_description
                    /\ servers[id].package_registry = later.package_registry
                    /\ servers[id].package_name = later.package_name
                    /\ Len(owned) = Len(asked)
                    /\ \A n \in 1..Len(owned) :
                         /\ owned[n].platform = asked[n].platform
                         /\ owned[n].install_command = asked[n].install_command

\* --------------------------------------------------------------- C15

NoRepository(github_url) == github_url = NULL \/ regexp_matches(github_url) = <<>>

\* C16: without a repository match the identifier is the name in lowercase
\* with every maximal run of characters that are no letter and no digit
\* turned into one '-'; "Demo Auth" gives "demo-auth".
C16_FallbackIdentifier ==
    (out.fn = "generate_server_id" /\ ~out.raised /\ NoRepository(args.github_url)) =>
        /\ out.value = CollapseNonAlnum(lower(args.name))
        /\ args.name = <<"D","e","m","o"," ","A","u","t","h">> =>
             out.value = <<"d","e","m","o","-","a","u","t","h">>

\* --------------------------------------------------------------- C17

\* lower(owner) "/" lower(repo without a trailing ".git"), every character
\* outside a-z, 0-9, "/" and "-" replaced by "-"
OwnerSlashRepo(github_url) ==
    LET parts == regexp_matches(github_url)
        joined == lower(parts[1]) \o <<"/">> \o lower(StripDotGit(parts[2]))
    IN  [ i \in 1..Len(joined) |->
            IF joined[i] \in LowerLetters \cup Digits \cup {"/", "-"}
            THEN joined[i] ELSE "-" ]

\* C17: for a URL in which the pattern finds owner and repo, the derivation
\* returns lower(owner)/lower(repo), ".git" dropped and the characters outside
\* [a-z0-9/-] replaced, whatever the name is.
C17_IdentifierFromUrl ==
    (out.fn = "generate_server_id" /\ ~NoRepository(args.github_url)) =>
        /\ ~out.raised
        /\ out.value = OwnerSlashRepo(args.github_url)

\* --------------------------------------------------------------- C18

\* C18: when an entry that brings its own instruction list has been stored,
\* the rows of its record are the list as supplied, the i-th (from 0) with
\* sort order i, whatever rows the table held before the step.
C18_SuppliedSortOrders ==
    [][ ( /\ pc = "entries"
          /\ Len(log') = Len(log) + 1
          /\ Last(log').kind \in {"inserted", "updated"}
          /\ response.servers[pos].install_instructions # <<>> ) =>
        LET list == response.servers[pos].install_instructions
            owned == OwnedRows(install_rows', Last(log').id)
        IN  /\ Len(owned) = Len(list)
            /\ \A i \in 1..Len(list) :
                 owned[i] = InstructionRow(Last(log').id, list[i].platform,
                                           list[i].icon_url, list[i].install_command,
                                           i - 1) ]_vars

\* "web x" stored with its macOS and Docker rows at 0 and 1, in a table that
\* began with rows of sort orders 0 and 5 of another record
C18_Witness ==
    /\ log # <<>>
    /\ Last(log).kind = "inserted"
    /\ Last(log).id = <<"w","e","b","-","x">>
    /\ OtherRecord.id \in DOMAIN servers
    /\ LET owned == OwnedRows(install_rows, Last(log).id)
       IN  /\ Len(owned) = 2
           /\ owned[1].platform = "macOS" /\ owned[1].sort_order = 0
           /\ owned[2].platform = "Docker" /\ owned[2].sort_order = 1

\* --------------------------------------------------------------- C19

\* platform, command and sort order of each row, in table order
Shown(rows) ==
    [ i \in 1..Len(rows) |->
        << rows[i].platform, rows[i].install_command, rows[i].sort_order >> ]

\* C19: for an entry without an instruction list the block leaves, for the
\* record, Node.js (0) and Yarn (1) for npm, Python (0) for pip and pypi,
\* Rust (0) for cargo, Go (0) for go, and nothing for another registry or
\* without registry or package name; for an entry with a list it leaves the
\* rows of the list and no default.
C19_DefaultInstructions ==
    (out.fn = "install_instructions" /\ ~out.raised) =>
        LET got == Shown(OwnedRows(out.value, CallId))
            reg == args.package_registry
            pkg == args.package_name
        IN  IF args.install_instructions # <<>>
            THEN /\ Len(got) = Len(args.install_instructions)
                 /\ \A i \in 1..Len(got) :
                      got[i][1] = args.install_instructions[i].platform
            ELSE IF reg = NULL \/ pkg = NULL THEN got = <<>>
            ELSE IF reg = <<"n","p","m">>
            THEN got = << <<"Node.js", <<"n","p","m"," ","i","n","s","t","a","l","l"," ">> \o pkg, 0>>,
                          <<"Yarn", <<"y","a","r","n"," ","a","d","d"," ">> \o pkg, 1>> >>
            ELSE IF reg \in { <<"p","i","p">>, <<"p","y","p","i">> }
            THEN got = << <<"Python", <<"p","i","p"," ","i","n","s","t","a","l","l"," ">> \o pkg, 0>> >>
            ELSE IF reg = <<"c","a","r","g","o">>
            THEN got = << <<"Rust", <<"c","a","r","g","o"," ","a","d","d"," ">> \o pkg, 0>> >>
            ELSE IF reg = <<"g","o">>
            THEN got = << <<"Go", <<"g","o"," ","g","e","t"," ">> \o pkg, 0>> >>
            ELSE got = <<>>

\* registry npm, package kit, no list, on a table that held two old rows of
\* the record: Node.js and Yarn are what is left
C19_Witness ==
    /\ out.fn = "install_instructions" /\ ~out.raised
    /\ args.package_registry = <<"n","p","m">>
    /\ args.package_name = <<"k","i","t">>
    /\ args.install_instructions = <<>>
    /\ Len(OwnedRows(out.value, CallId)) = 2
    /\ OwnedRows(out.value, CallId)[2].platform = "Yarn"

\* --------------------------------------------------------------- C20

\* the categories in the order of their rules
Categories == << "auth", "database", "ai", "files", "web" >>

\* whether the k-th rule matches: its keywords, each in the field it is
\* looked for (name n and description d in lowercase)
RuleMatches(k, n, d) ==
    CASE k = 1 -> Like(n, Str_auth) \/ Like(d, Str_auth) \/ Like(d, Str_login)
      [] k = 2 -> Like(d, Str_database) \/ Like(d, Str_storage) \/ Like(n, Str_db)
      [] k = 3 -> Like(d, Str_ai) \/ Like(d, Str_llm) \/ Like(d, Str_language_model)
      [] k = 4 -> Like(d, Str_file) \/ Like(d, Str_document)
      [] k = 5 -> Like(d, Str_web) \/ Like(d, Str_http)

\* the keywords of all rules but "database" itself
OtherKeywords ==
    { Str_auth, Str_login, Str_storage, Str_db, Str_ai, Str_llm, Str_language_model,
      Str_file, Str_document, Str_web, Str_http }

\* C20: the category is one of auth, database, ai, files, web, other; it is
\* that of the earliest rule that matches, and other when none does; a
\* description with "database" and no other keyword anywhere gives database;
\* no keyword in name or description gives other.
C20_Classification ==
    out.fn = "determine_category" =>
        LET n == lower(args.name)
            d == lower(IF args.description = NULL THEN <<>> ELSE args.description)
            hits == { k \in 1..Len(Categories) : RuleMatches(k, n, d) }
            none == \A w \in OtherKeywords : ~Like(n, w) /\ ~Like(d, w)
        IN  /\ ~out.raised
            /\ out.value \in { Categories[k] : k \in 1..Len(Categories) } \cup {"other"}
            /\ hits # {} =>
                 out.value = Categories[CHOOSE k \in hits : \A j \in hits : k <= j]
            /\ hits = {} => out.value = "other"
            /\ (Like(d, Str_database) /\ none) => out.value = "database"
            /\ (none /\ ~Like(n, Str_database) /\ ~Like(d, Str_database)) =>
                 out.value = "other"

\* "Login via HTTP" matches the rules of auth and of web, and is auth
C20_Witness ==
    /\ out.fn = "determine_category"
    /\ args.description = <<"L","o","g","i","n"," ","v","i","a"," ","H","T","T","P">>
    /\ args.name = <<"x","_","Y",".","z","9">>
    /\ out.value = "auth"

\* --------------------------------------------------------------- C21

\* the stop words of the claim
StopWords ==
    { <<"t","h","e">>, <<"a","n","d">>, <<"f","o","r">>, <<"w","i","t","h">>,
      <<"t","h","a","t">>, <<"t","h","i","s">>, <<"h","a","s">>, <<"a","r","e">>,
      <<"f","r","o","m">> }

\* extract_tags has returned a tag list
TagsReturned ==
    /\ out.fn = "extract_tags"
    /\ ~out.raised
    /\ out.value # NULL

\* C21: a tag list that extract_tags returns has at most 10 entries and no
\* entry twice, holds no stop word and no token of 2 characters or fewer,
\* and each tag is a lowercase alphanumeric token of the name or of the
\* description.
C21_TagList ==
    TagsReturned =>
        /\ Len(out.value) <= 10
        /\ \A i, j \in 1..Len(out.value) : i # j => out.value[i] # out.value[j]
        /\ \A i \in 1..Len(out.value) :
             LET tag == out.value[i]
             IN  /\ tag \notin StopWords
                 /\ Len(tag) > 2
                 /\ \A k \in 1..Len(tag) : tag[k] \in LowerLetters \cup Digits
                 /\ tag \in Tokens(lower(args.name)) \cup Tokens(lower(args.description))

\* a list cut to 10 tags was returned for a text that holds more than 10
\* words to keep, a stop word, a short token and a token twice
C21_Witness ==
    /\ TagsReturned
    /\ Len(out.value) = 10
    /\ LET words == all_words(args.name, args.description)
       IN  /\ Cardinality(TagWords(args.name, args.description)) > 10
           /\ \E i \in 1..Len(words) : words[i] \in StopWords
           /\ \E i \in 1..Len(words) : Len(words[i]) <= 2
           /\ \E i, j \in 1..Len(words) : i # j /\ words[i] = words[j]

\* --------------------------------------------------------------- C22

\* the tokens that qualify, in the order they are first seen scanning the
\* name and then the description
FirstSeen(name, description) ==
    SelectSeq(FirstOccurrences(all_words(name, description), 1),
              LAMBDA w : Len(w) > 2 /\ w \notin StopWords)

\* C22: the tags are in the order in which their tokens are first seen in the
\* name and then the description, and of more than 10 the first 10 are kept.
C22_TagOrder ==
    TagsReturned =>
        LET seen == FirstSeen(args.name, args.description)
        IN  out.value = IF Len(seen) > 10 THEN SubSeq(seen, 1, 10) ELSE seen

\* --------------------------------------------------------------- C23

\* the i-th page request of this run is over: its entries are processed and
\* its cursor is read, or it failed
PageOver(i) == i < Len(fetched) \/ pc \in {"loop", "done"}

\* C23: in a run, exactly one delay follows each page whose response names a
\* next page, after the page's entries are all processed and before the next
\* fetch; no delay follows the final page or a failed page fetch.
C23_InterPageDelay ==
    \A i \in 1..Len(fetched) :
        LET names_next == fetched[i].ok /\ Page(source, fetched[i].url).next # NoUrl
        IN  /\ (PageOver(i) /\ names_next) => fetched[i].slept = 1
            /\ (~PageOver(i) \/ ~names_next) => fetched[i].slept = 0
            /\ i < Len(fetched) => fetched[i].slept = 1

\* a run is over that processed the entries of a page naming a next page,
\* delayed once, and fetched the final page, after which it did not delay
C23_Witness ==
    /\ pc = "done"
    /\ Len(fetched) = 2
    /\ fetched[1].slept = 1
    /\ fetched[2].slept = 0
    /\ Len(log) > 0

\* --------------------------------------------------------------- C24

\* the script was interrupted while the run it started was in progress
InterruptedInRun ==
    /\ harness.script = "sync_mcp_direct"
    /\ harness.exited
    /\ "interrupted" \in harness.shown
    /\ pc \in {"loop", "entries"}

\* C24: after an interrupt that arrives during a run no page is fetched and
\* no entry is reconciled, and the outcome reported is "interrupted", which is
\* neither the success nor the failure outcome.
C24_Cancellation ==
    /\ [](InterruptedInRun => (harness.code = 130 /\ harness.shown = {"interrupted"}))
    /\ [][ InterruptedInRun =>
             (Len(fetched') = Len(fetched) /\ Len(log') = Len(log)) ]_vars

\* --------------------------------------------------------------- C25

Owners(rows) == { rows[i].server_id : i \in 1..Len(rows) }

RecordOf(table, id) == IF id \in DOMAIN table THEN table[id] ELSE NULL

\* C27: when the processing of an entry raises, the store holds for the
\* entry's identifier the same record and the same instruction rows after
\* the step as before it.
C27_FailedEntryLeavesStore ==
    [][ (Len(log') = Len(log) + 1 /\ Last(log').kind = "raised") =>
          /\ RecordOf(servers', Last(log').id) = RecordOf(servers, Last(log').id)
          /\ OwnedRows(install_rows', Last(log').id)
               = OwnedRows(install_rows, Last(log').id) ]_vars

\* an entry raised in its instruction statements, after its record was
\* updated and its old instructions deleted, and the record has its
\* instruction rows
C27_Witness ==
    /\ pc = "entries"
    /\ Len(log) > 0
    /\ Last(log).kind = "raised"
    /\ Last(log).fault = "instr"
    /\ variable_conflict # "error"
    /\ Last(log).id \in DOMAIN servers
    /\ OwnedRows(install_rows, Last(log).id) # <<>>

\* --------------------------------------------------------------- C28

\* the entries of this run that were skipped, in the order they were
\* processed
SkippedEntries ==
    SelectSeq([ i \in 1..Len(log) |-> i ],
              LAMBDA i : log[i].kind \in {"raised", "insert_failed", "update_failed"})

\* the message is the one the code writes for the i-th entry of the run
MessageOf(i, msg) ==
    IF log[i].kind = "raised"
    THEN msg.fmt = "Error processing server %s: %s" /\ msg.subject = EntryOf(i).name
    ELSE IF log[i].kind = "insert_failed"
    THEN msg.fmt = "Failed to insert server %s" /\ msg.subject = log[i].id
    ELSE msg.fmt = "Failed to update server %s" /\ msg.subject = log[i].id

\* the list holds one message per skipped entry, in order, then the message
\* of the failed page fetch if there was one
MatchesSkips(messages) ==
    /\ Len(messages) = Len(SkippedEntries) + Cardinality(FailedFetches)
    /\ \A k \in 1..Len(SkippedEntries) : MessageOf(SkippedEntries[k], messages[k])
    /\ FailedFetches # {} => Last(messages).fmt = "Error fetching page: %s"

\* C28: at the end of a run, and in a run in progress, the error message list
\* holds exactly one message per skipped entry plus one per failed page
\* fetch, in the order of the failures and however many there are: its length
\* is skipped plus the number of failed page fetches, which is 0 or 1.
C28_DiagnosticsMatchSkips ==
    pc \in {"loop", "entries", "done"} =>
        /\ Len(SkippedEntries) = skipped_count
        /\ Cardinality(FailedFetches) \in {0, 1}
        /\ MatchesSkips(error_messages)
        /\ pc = "done" =>
             /\ MatchesSkips(result.stats.errors)
             /\ Len(result.stats.errors)
                  = result.stats.skipped + Cardinality(FailedFetches)

\* a run is over in which an entry was skipped and the fetch of the next
\* page failed: two messages, the entry's first
C28_Witness ==
    /\ pc = "done"
    /\ result.stats.skipped = 1
    /\ FailedFetches # {}
    /\ Len(result.stats.errors) = 2
    /\ result.stats.errors[2].fmt = "Error fetching page: %s"

====
